---------------------------- MODULE Spec2Model ----------------------------
(***************************************************************************)
(* Clinical Trials Dashboard: the manifest builder (generate_manifest.py)  *)
(* and the static server launcher (server.py), as two state machines over  *)
(* one small filesystem.                                                   *)
(*                                                                         *)
(* File names are sequences of one-character strings, so that the glob     *)
(* pattern, the exclusion test and the sort are computed on the characters *)
(* as Python computes them.                                                *)
(***************************************************************************)
EXTENDS Integers, Sequences, FiniteSets, TLC

(***************************************************************************)
(* Bounds of the model.                                                    *)
(***************************************************************************)
\* At most this many data files exist in data/ at once (manifest.json apart).
MaxFiles == 3
\* The wall clock read by datetime.now() takes the values 0..MaxClock.
MaxClock == 1
\* Another process changes data/ at most this many times during one run.
MaxForeignWrites == 1

(***************************************************************************)
(* File names and their characters.                                        *)
(***************************************************************************)
\* Code point of a character, the key of Python's str comparison.
Ord(c) ==
    CASE c = "." -> 46
      [] c = "B" -> 66
      [] c = "a" -> 97
      [] c = "b" -> 98
      [] c = "e" -> 101
      [] c = "f" -> 102
      [] c = "i" -> 105
      [] c = "j" -> 106
      [] c = "l" -> 108
      [] c = "m" -> 109
      [] c = "n" -> 110
      [] c = "o" -> 111
      [] c = "s" -> 115
      [] c = "t" -> 116
      [] c = "x" -> 120

\* The suffix of the glob pattern "*.json".
DotJson == <<".", "j", "s", "o", "n">>

\* "manifest.json", the builder's own output file.
ManifestName == <<"m", "a", "n", "i", "f", "e", "s", "t">> \o DotJson

\* The note written into every manifest.
Note == "Auto-generated file list for Clinical Trials Dashboard"

\* The names a data file may take: a.json, ab.json, B.json qualify;
\* a.txt and a.jsonl (".json" inside the name, not at its end) do not.
DataNames ==
    { <<"a">> \o DotJson,
      <<"a", "b">> \o DotJson,
      <<"B">> \o DotJson,
      <<"a", ".", "t", "x", "t">>,
      <<"a">> \o DotJson \o <<"l">> }

\* What open() + json.load() meets in a file: well-formed JSON, malformed
\* JSON (json.JSONDecodeError), or a file that cannot be read or decoded
\* (any other Exception).
Kinds == {"valid", "malformed", "unreadable"}
Absent == "absent"

NoManifest == [absent |-> TRUE]
NoResponse == [absent |-> TRUE]
None == "None"

VARIABLES
    \* ---- the filesystem
    dataDir,          \* data/ exists
    content,          \* DataNames -> Kinds \cup {Absent}: the files of data/
    manifest,         \* the content of data/manifest.json, or NoManifest
    indexHtml,        \* index.html exists in the working directory
    clock,            \* datetime.now()
    \* ---- one run of generate_manifest.py
    pc,               \* "start", "validated", "exited"
    result,           \* what validate_json_files() returned, None before
    invalid_files,    \* validate_json_files' invalid_files
    parsed_ok,        \* the names json.load() accepted in this run
    generate_called,  \* generate_manifest() was invoked in this run
    manifest_at_start,\* manifest as the run found it
    data_dir_at_start,\* dataDir as the run found it
    exit_status,      \* the process exit status, None while running
    foreign_writes,   \* changes other processes made to data/ during this run
    \* ---- one run of server.py
    spc,              \* position in start_server
    sock,             \* the TCPServer's listening socket
    index_seen,       \* "found" or "missing" once Path('index.html').exists() ran
    bind_attempted,   \* TCPServer(("", PORT), ...) was evaluated
    browser_failed,   \* webbrowser.open raised
    interrupted,      \* KeyboardInterrupt reached serve_forever's handler
    response          \* the last response written to a client

fsVars == <<dataDir, content, manifest, indexHtml, clock>>
builderVars == <<pc, result, invalid_files, parsed_ok, generate_called,
                 manifest_at_start, data_dir_at_start, exit_status,
                 foreign_writes>>
serverVars == <<spc, sock, index_seen, bind_attempted, browser_failed,
                interrupted, response>>
vars == <<fsVars, builderVars, serverVars>>

(***************************************************************************)
(* Directory listing.                                                      *)
(***************************************************************************)
\* The entries of data/ (empty when the directory does not exist).
Entries ==
    IF dataDir
    THEN {n \in DataNames : content[n] # Absent}
         \cup (IF manifest = NoManifest THEN {} ELSE {ManifestName})
    ELSE {}

\* Path.mkdir(exist_ok=True) left out: the directory stays as it was.
mkdir_skipped(exists) == exists

\* Path("data").mkdir(exist_ok=True): the directory exists afterwards.
mkdir(exists) == TRUE

RECURSIVE Perms(_)
\* Every order in which the filesystem may enumerate a set of entries.
Perms(S) ==
    IF S = {} THEN {<<>>}
    ELSE UNION {{<<x>> \o p : p \in Perms(S \ {x})} : x \in S}

\* fnmatch of a name against "*.json" (case-sensitive, hidden files included).
MatchesJsonPattern(name) ==
    /\ Len(name) >= Len(DotJson)
    /\ SubSeq(name, Len(name) - Len(DotJson) + 1, Len(name)) = DotJson

\* Path("data").glob("*.json") over one enumeration order of the directory.
Glob(order) == SelectSeq(order, MatchesJsonPattern)

\* The filter `if f.name != "manifest.json"` of validate_json_files.
NotManifest(name) == name # ManifestName

\* validate_json_files:
\* [f for f in data_dir.glob("*.json") if f.name != "manifest.json"]
QualifyingFiles(order) == SelectSeq(Glob(order), NotManifest)

\* The filter of generate_manifest with the test left out.
KeepsEveryName(name) == TRUE

\* The filter `if f.name != "manifest.json"` of generate_manifest.
NotManifestName(name) == name # ManifestName

\* generate_manifest:
\* [f.name for f in data_dir.glob("*.json") if f.name != "manifest.json"]
QualifyingFileNames(order) == SelectSeq(Glob(order), NotManifestName)

(***************************************************************************)
(* str comparison and list.sort().                                         *)
(***************************************************************************)
RECURSIVE StrLess(_, _)
\* Python's a < b on str: lexicographic by code point, a proper prefix first.
StrLess(a, b) ==
    IF a = <<>> THEN b # <<>>
    ELSE IF b = <<>> THEN FALSE
    ELSE IF Ord(Head(a)) < Ord(Head(b)) THEN TRUE
    ELSE IF Ord(Head(a)) > Ord(Head(b)) THEN FALSE
    ELSE StrLess(Tail(a), Tail(b))

RECURSIVE Insert(_, _)
\* x placed into the sorted sequence s, after the elements not greater.
Insert(x, s) ==
    IF s = <<>> THEN <<x>>
    ELSE IF StrLess(x, Head(s)) THEN <<x>> \o s
    ELSE <<Head(s)>> \o Insert(x, Tail(s))

RECURSIVE SortFrom(_, _)
SortFrom(s, acc) ==
    IF s = <<>> THEN acc ELSE SortFrom(Tail(s), Insert(Head(s), acc))

\* json_files.sort() left out: the list stays in enumeration order.
Unsorted(json_files) == json_files

\* json_files.sort(): ascending, stable.
Sort(json_files) == SortFrom(json_files, <<>>)

(***************************************************************************)
(* validate_json_files                                                     *)
(***************************************************************************)
\* The try/except around open() and json.load() for one file: <<>> when the
\* file parses, else the one entry appended to invalid_files.
ParseOutcome(name) ==
    CASE content[name] = "valid" -> <<>>
      [] content[name] = "malformed" -> << <<name, "JSONDecodeError">> >>
      [] content[name] = "unreadable" -> << <<name, "Error reading file">> >>

RECURSIVE ValidateLoop(_, _)
\* for json_file in json_files: ... ; every file is visited.
ValidateLoop(json_files, acc) ==
    IF json_files = <<>> THEN acc
    ELSE ValidateLoop(Tail(json_files), acc \o ParseOutcome(Head(json_files)))

RECURSIVE ValidateLoopStop(_, _)
\* The loop as it would be if the first failure ended it.
ValidateLoopStop(json_files, acc) ==
    IF json_files = <<>> \/ acc # <<>> THEN acc
    ELSE ValidateLoopStop(Tail(json_files),
                          acc \o ParseOutcome(Head(json_files)))

\* The invalid_files of a loop that stops at the first bad file.
CollectInvalidStopAtFirst(json_files) == ValidateLoopStop(json_files, <<>>)

\* invalid_files after the loop over json_files.
CollectInvalid(json_files) == ValidateLoop(json_files, <<>>)

\* `if invalid_files: return False else: return True`
ValidateReturn(invalid) == invalid = <<>>

\* The names of the entries of a list of (filename, reason).
FailedNames(invalid) == {invalid[i][1] : i \in DOMAIN invalid}

\* validate_json_files(), entered from the entry point.
Validate ==
    /\ pc = "start"
    /\ \E order \in Perms(Entries) :
         LET json_files == QualifyingFiles(order)
             invalid == CollectInvalid(json_files)
         IN /\ invalid_files' = invalid
            /\ parsed_ok' = {json_files[i] : i \in DOMAIN json_files}
                              \ FailedNames(invalid)
            /\ result' = ValidateReturn(invalid)
    /\ manifest_at_start' = manifest
    /\ data_dir_at_start' = dataDir
    /\ pc' = "validated"
    /\ UNCHANGED <<generate_called, exit_status, foreign_writes, fsVars,
                   serverVars>>

(***************************************************************************)
(* generate_manifest and the entry point                                   *)
(***************************************************************************)
\* The manifest dict built from the sorted list.
BuildManifest(json_files) ==
    [files |-> json_files,
     total_files |-> Len(json_files),
     generated_at |-> clock,
     note |-> Note]

\* The entry point calling generate_manifest() whatever validation returned.
GenerateAlways == TRUE

\* `if validate_json_files():` of the entry point.
ShouldGenerate == result = TRUE

\* generate_manifest(): mkdir, list, sort, write; then the script ends.
Generate ==
    /\ pc = "validated"
    /\ ShouldGenerate
    /\ dataDir' = mkdir(dataDir)
    /\ \E order \in Perms(Entries) :
         manifest' = BuildManifest(Sort(QualifyingFileNames(order)))
    /\ generate_called' = TRUE
    /\ exit_status' = 0
    /\ pc' = "exited"
    /\ UNCHANGED <<content, indexHtml, clock, result, invalid_files,
                   parsed_ok, manifest_at_start, data_dir_at_start,
                   foreign_writes, serverVars>>

\* The else branch of the entry point: a message is printed and the script
\* runs off its end.
Abort ==
    /\ pc = "validated"
    /\ ~ShouldGenerate
    /\ exit_status' = 0
    /\ pc' = "exited"
    /\ UNCHANGED <<fsVars, result, invalid_files, parsed_ok, generate_called,
                   manifest_at_start, data_dir_at_start, foreign_writes,
                   serverVars>>

\* The script is run again.
Rerun ==
    /\ pc = "exited"
    /\ pc' = "start"
    /\ result' = None
    /\ invalid_files' = <<>>
    /\ parsed_ok' = {}
    /\ generate_called' = FALSE
    /\ manifest_at_start' = NoManifest
    /\ data_dir_at_start' = FALSE
    /\ exit_status' = None
    /\ foreign_writes' = 0
    /\ UNCHANGED <<fsVars, serverVars>>

(***************************************************************************)
(* server.py: CustomHTTPRequestHandler                                     *)
(***************************************************************************)
\* The request lines a client may send: a two-word line is an HTTP/0.9
\* request, "bad" is a third word that is no HTTP version.
Versions == {"HTTP/0.9", "HTTP/1.0", "HTTP/1.1", "bad"}
Commands == {"GET", "HEAD", "POST", "OPTIONS"}
Requests == [version : Versions, command : Commands, found : BOOLEAN]

\* The three headers end_headers adds.
CorsHeaders ==
    << <<"Access-Control-Allow-Origin", "*">>,
       <<"Access-Control-Allow-Methods", "GET, POST, OPTIONS">>,
       <<"Access-Control-Allow-Headers", "Content-Type">> >>

\* self.send_header, inherited from http.server.BaseHTTPRequestHandler: the
\* header joins the buffer, except while request_version is "HTTP/0.9" (a
\* request line without a valid version), whose response has no header block.
send_header(request_version, buffer, header) ==
    IF request_version # "HTTP/0.9" THEN Append(buffer, header) ELSE buffer

\* The inherited end_headers (super().end_headers()): the buffer is written
\* to the client as the header block; what is sent later is not part of it.
super_end_headers(request_version, buffer) ==
    IF request_version # "HTTP/0.9" THEN buffer ELSE <<>>

\* end_headers with the header block finalized before the headers are added.
end_headers_after_flush(request_version, buffer) ==
    super_end_headers(request_version, buffer)

\* CustomHTTPRequestHandler.end_headers: the header block as written.
end_headers(request_version, buffer) ==
    super_end_headers(request_version,
        send_header(request_version,
            send_header(request_version,
                send_header(request_version, buffer, CorsHeaders[1]),
                CorsHeaders[2]),
            CorsHeaders[3]))

\* The version the inherited parse_request leaves in self.request_version:
\* the default "HTTP/0.9" unless the request line carries a valid version.
RequestVersion(req) ==
    IF req.version \in {"HTTP/1.0", "HTTP/1.1"} THEN req.version
    ELSE "HTTP/0.9"

\* The status the inherited handler answers with.
StatusOf(req) ==
    IF req.version = "bad" THEN 400
    ELSE IF req.version = "HTTP/0.9" /\ req.command # "GET" THEN 400
    ELSE IF req.command \notin {"GET", "HEAD"} THEN 501
    ELSE IF req.found THEN 200
    ELSE 404

\* The headers the inherited handler has sent when it calls end_headers.
HeadersBefore(req) ==
    LET v == RequestVersion(req)
        base == send_header(v, <<>>, <<"Server", "SimpleHTTP">>)
    IN IF StatusOf(req) = 200
       THEN send_header(v, base, <<"Content-type", "text/html">>)
       ELSE send_header(v, base, <<"Connection", "close">>)

\* One request answered by the handler.
Respond(req) ==
    [status |-> StatusOf(req),
     request_version |-> RequestVersion(req),
     headers |-> end_headers(RequestVersion(req), HeadersBefore(req))]

(***************************************************************************)
(* server.py: start_server                                                 *)
(***************************************************************************)
PORT == 8000

NoSocket == [state |-> "none", port |-> 0]

\* `if not Path('index.html').exists(): ... return` without the return.
PreflightFallsThrough(found) == "prepare"

\* Where start_server goes after the index.html check.
AfterPreflight(found) == IF found THEN "prepare" ELSE "returned"

\* Leaving start_server without the `with` statement closing the server.
LeaveOpen(s) == s

\* TCPServer.__exit__ (and the constructor's own cleanup): server_close().
server_close(s) == IF s.state = "listening" THEN [s EXCEPT !.state = "closed"] ELSE s

\* The index.html check.
Preflight ==
    /\ spc = "start"
    /\ index_seen' = (IF indexHtml THEN "found" ELSE "missing")
    /\ spc' = AfterPreflight(indexHtml)
    /\ UNCHANGED <<sock, bind_attempted, browser_failed, interrupted,
                   response, fsVars>>

\* Path('data').mkdir(exist_ok=True) and the report of the JSON files.
PrepareData ==
    /\ spc = "prepare"
    /\ dataDir' = mkdir(dataDir)
    /\ spc' = "bind"
    /\ UNCHANGED <<content, manifest, indexHtml, clock, sock, index_seen,
                   bind_attempted, browser_failed, interrupted, response>>

\* socketserver.TCPServer(("", PORT), ...): the port is bound, or the
\* constructor closes its socket and raises OSError.
Bind ==
    /\ spc = "bind"
    /\ bind_attempted' = TRUE
    /\ \E ok \in BOOLEAN :
         IF ok
         THEN /\ sock' = [state |-> "listening", port |-> PORT]
              /\ spc' = "banner"
         ELSE /\ sock' = [state |-> "closed", port |-> 0]
              /\ spc' = "crashed"
    /\ UNCHANGED <<index_seen, browser_failed, interrupted, response, fsVars>>

\* The four print() calls inside the with block.
Banner ==
    /\ spc = "banner"
    /\ spc' = "browser"
    /\ UNCHANGED <<sock, index_seen, bind_attempted, browser_failed,
                   interrupted, response, fsVars>>

\* try: webbrowser.open(...) except: pass
OpenBrowser ==
    /\ spc = "browser"
    /\ browser_failed' \in BOOLEAN
    /\ spc' = "serving"
    /\ UNCHANGED <<sock, index_seen, bind_attempted, interrupted, response,
                   fsVars>>

\* httpd.serve_forever() answering one request.
HandleRequest ==
    /\ spc = "serving"
    /\ \E req \in Requests : response' = Respond(req)
    /\ UNCHANGED <<spc, sock, index_seen, bind_attempted, browser_failed,
                   interrupted, fsVars>>

\* Ctrl+C during serve_forever: the except clause, then the with block ends.
Interrupt ==
    /\ spc = "serving"
    /\ interrupted' = TRUE
    /\ sock' = server_close(sock)
    /\ spc' = "returned"
    /\ UNCHANGED <<index_seen, bind_attempted, browser_failed, response,
                   fsVars>>

\* Ctrl+C outside the two try blocks: KeyboardInterrupt leaves start_server,
\* through the with block when the server exists.
InterruptOutside ==
    /\ spc \in {"prepare", "bind", "banner"}
    /\ sock' = server_close(sock)
    /\ spc' = "crashed"
    /\ UNCHANGED <<index_seen, bind_attempted, browser_failed, interrupted,
                   response, fsVars>>

\* server.py is run again.
RerunServer ==
    /\ spc \in {"returned", "crashed"}
    /\ spc' = "start"
    /\ sock' = NoSocket
    /\ index_seen' = None
    /\ bind_attempted' = FALSE
    /\ browser_failed' = FALSE
    /\ interrupted' = FALSE
    /\ response' = NoResponse
    /\ UNCHANGED fsVars

(***************************************************************************)
(* The environment: the user and other processes acting on the files.      *)
(***************************************************************************)
NumFiles == Cardinality({n \in DataNames : content[n] # Absent})

\* A data file is created or replaced.
EnvWrite ==
    /\ dataDir
    /\ \E n \in DataNames, k \in Kinds :
         /\ content[n] # k
         /\ content[n] = Absent => NumFiles < MaxFiles
         /\ content' = [content EXCEPT ![n] = k]
    /\ UNCHANGED <<dataDir, manifest, indexHtml, clock>>

\* A data file is removed.
EnvRemove ==
    /\ \E n \in DataNames :
         /\ content[n] # Absent
         /\ content' = [content EXCEPT ![n] = Absent]
    /\ UNCHANGED <<dataDir, manifest, indexHtml, clock>>

\* data/ is removed with everything in it.
EnvRemoveDir ==
    /\ dataDir
    /\ dataDir' = FALSE
    /\ content' = [n \in DataNames |-> Absent]
    /\ manifest' = NoManifest
    /\ UNCHANGED <<indexHtml, clock>>

\* index.html is created or removed.
EnvIndex ==
    /\ indexHtml' = ~indexHtml
    /\ UNCHANGED <<dataDir, content, manifest, clock>>

\* Time passes.
Tick ==
    /\ clock < MaxClock
    /\ clock' = clock + 1
    /\ UNCHANGED <<dataDir, content, manifest, indexHtml>>

Init ==
    /\ dataDir \in BOOLEAN
    /\ content = [n \in DataNames |-> Absent]
    /\ manifest = NoManifest
    /\ indexHtml = FALSE
    /\ clock = 0
    /\ pc = "start"
    /\ result = None
    /\ invalid_files = <<>>
    /\ parsed_ok = {}
    /\ generate_called = FALSE
    /\ manifest_at_start = NoManifest
    /\ data_dir_at_start = FALSE
    /\ exit_status = None
    /\ foreign_writes = 0
    /\ spc = "start"
    /\ sock = NoSocket
    /\ index_seen = None
    /\ bind_attempted = FALSE
    /\ browser_failed = FALSE
    /\ interrupted = FALSE
    /\ response = NoResponse

\* The files change between runs of the builder.
EnvBetweenRuns ==
    /\ pc = "start"
    /\ EnvWrite \/ EnvRemove \/ EnvRemoveDir \/ Tick
    /\ UNCHANGED <<builderVars, serverVars>>

Next ==
    \/ Validate
    \/ Generate
    \/ Abort
    \/ Rerun
    \/ EnvBetweenRuns

\* The manifest builder, run again and again on a directory that changes
\* between the runs.
Spec == Init /\ [][Next]_vars

\* Another process changes the files between validate_json_files() and
\* generate_manifest().
EnvDuringRun ==
    /\ pc = "validated"
    /\ foreign_writes < MaxForeignWrites
    /\ EnvWrite \/ EnvRemove \/ EnvRemoveDir \/ Tick
    /\ foreign_writes' = foreign_writes + 1
    /\ UNCHANGED <<pc, result, invalid_files, parsed_ok, generate_called,
                   manifest_at_start, data_dir_at_start, exit_status,
                   serverVars>>

NextRace ==
    \/ Validate
    \/ Generate
    \/ Abort
    \/ Rerun
    \/ EnvBetweenRuns
    \/ EnvDuringRun

\* The manifest builder beside a process that changes data/ while it runs.
SpecRace == Init /\ [][NextRace]_vars

\* The working directory changes while the server runs.
EnvServer ==
    /\ EnvIndex \/ EnvRemoveDir
    /\ UNCHANGED <<builderVars, serverVars>>

NextServer ==
    \/ (Preflight /\ UNCHANGED builderVars)
    \/ (PrepareData /\ UNCHANGED builderVars)
    \/ (Bind /\ UNCHANGED builderVars)
    \/ (Banner /\ UNCHANGED builderVars)
    \/ (OpenBrowser /\ UNCHANGED builderVars)
    \/ (HandleRequest /\ UNCHANGED builderVars)
    \/ (Interrupt /\ UNCHANGED builderVars)
    \/ (InterruptOutside /\ UNCHANGED builderVars)
    \/ (RerunServer /\ UNCHANGED builderVars)
    \/ EnvServer

\* The static server launcher, started again and again.
SpecServer == Init /\ [][NextServer]_vars

(***************************************************************************)
(* Properties of the manifest builder.                                     *)
(***************************************************************************)
\* A name ends in ".json".
HasJsonSuffix(name) ==
    \E k \in 0..Len(name) : name = SubSeq(name, 1, k) \o DotJson

\* The qualifying files of data/ as a set: *.json other than manifest.json.
QualifyingNames ==
    {n \in Entries : HasJsonSuffix(n) /\ n # ManifestName}

\* The qualifying files that do not parse or cannot be read.
FailingNames == {n \in QualifyingNames : content[n] # "valid"}

\* a comes before b in ascending lexicographic order of code points.
LexBefore(a, b) ==
    \E k \in 1..(Len(b)) :
        /\ k <= Len(a) + 1
        /\ \A i \in 1..(k - 1) : a[i] = b[i]
        /\ k = Len(a) + 1 \/ (k <= Len(a) /\ Ord(a[k]) < Ord(b[k]))

\* C1 (validation gate): in a run in which some qualifying file fails to
\* parse or cannot be read, generate_manifest is not invoked and
\* data/manifest.json stays exactly as the run found it.
ValidationGate ==
    (pc \in {"validated", "exited"} /\ FailingNames # {})
        => (~generate_called /\ manifest = manifest_at_start)

\* A run that found a stale manifest and a bad file has ended, the manifest
\* untouched.
ValidationGateWitness ==
    /\ pc = "exited"
    /\ FailingNames # {}
    /\ manifest_at_start # NoManifest
    /\ manifest = manifest_at_start
    /\ ~generate_called

\* C2 (failure signalling): when the run has ended, the exit status is
\* non-zero exactly when validation reported failure.
ExitStatusReflectsValidation ==
    pc = "exited" => ((exit_status # 0) <=> (result = FALSE))

\* C3 (exclusion invariant): the files of a written manifest never contain
\* "manifest.json" and contain only names ending in ".json".
ExclusionInvariant ==
    manifest # NoManifest =>
        \A i \in DOMAIN manifest.files :
            /\ manifest.files[i] # ManifestName
            /\ HasJsonSuffix(manifest.files[i])

\* A run that found manifest.json in data/ has written a manifest that
\* lists files.
ExclusionWitness ==
    /\ pc = "exited"
    /\ generate_called
    /\ manifest_at_start # NoManifest
    /\ Len(manifest.files) >= 2

\* C4 (determinism): whatever the enumeration order, the written files are
\* exactly the qualifying names in strictly ascending lexicographic order,
\* and total_files is their number.
Determinism ==
    (pc = "exited" /\ generate_called) =>
        /\ {manifest.files[i] : i \in DOMAIN manifest.files} = QualifyingNames
        /\ \A i \in DOMAIN manifest.files : \A j \in DOMAIN manifest.files :
               i < j => LexBefore(manifest.files[i], manifest.files[j])
        /\ manifest.total_files = Len(manifest.files)

\* A manifest of three files has been written.
DeterminismWitness ==
    /\ pc = "exited"
    /\ generate_called
    /\ Len(manifest.files) = 3
    /\ manifest.total_files = 3

\* Nothing was in data/ when the run began (or data/ did not exist).
EmptyAtStart ==
    /\ \A n \in DataNames : content[n] = Absent
    /\ manifest_at_start = NoManifest

\* C5 (empty or nonexistent data directory): validation succeeds and leaves
\* the directory as it was, not creating it; generation then creates data/
\* if missing and writes files = [] and total_files = 0.
EmptyDirectory ==
    /\ (pc = "validated" /\ EmptyAtStart)
           => (result = TRUE /\ dataDir = data_dir_at_start)
    /\ (pc = "exited" /\ EmptyAtStart)
           => /\ generate_called
              /\ dataDir
              /\ manifest # NoManifest
              /\ manifest.files = <<>>
              /\ manifest.total_files = 0

\* A run that found no data/ has created it and written an empty manifest.
EmptyDirectoryWitness ==
    /\ pc = "exited"
    /\ EmptyAtStart
    /\ ~data_dir_at_start
    /\ dataDir
    /\ manifest # NoManifest

\* The number of entries of invalid_files that name n.
EntriesFor(n) ==
    Cardinality({i \in DOMAIN invalid_files : invalid_files[i][1] = n})

\* C6 (validation collects all failures): after validate_json_files, each
\* failing qualifying file has exactly one entry (its name, its reason),
\* no other entry exists, and success is returned iff no entry was recorded.
CollectsAllFailures ==
    pc = "validated" =>
        /\ \A n \in FailingNames : EntriesFor(n) = 1
        /\ \A i \in DOMAIN invalid_files :
               /\ invalid_files[i][1] \in FailingNames
               /\ invalid_files[i][2] =
                      (IF content[invalid_files[i][1]] = "malformed"
                       THEN "JSONDecodeError" ELSE "Error reading file")
        /\ result \in BOOLEAN
        /\ result = TRUE <=> invalid_files = <<>>
        /\ parsed_ok = QualifyingNames \ FailingNames

\* Validation has met two bad files and a good one, after the first bad one
\* in some order.
CollectsAllFailuresWitness ==
    /\ pc = "validated"
    /\ Len(invalid_files) = 2
    /\ parsed_ok # {}
    /\ result = FALSE

\* C10 (validated equals listed): every name written to the manifest was
\* parsed successfully by validate_json_files earlier in the same run.
ValidatedEqualsListed ==
    (pc = "exited" /\ generate_called) =>
        \A i \in DOMAIN manifest.files : manifest.files[i] \in parsed_ok

(***************************************************************************)
(* Properties of the static server launcher.                               *)
(***************************************************************************)
\* C7 (preflight gate): the bind is attempted only after the index.html
\* check has passed; when index.html is missing start_server returns with
\* no socket and no bind attempt.
PreflightGate ==
    /\ bind_attempted => index_seen = "found"
    /\ index_seen = "missing" =>
           (spc = "returned" /\ sock = NoSocket /\ ~bind_attempted)

\* start_server has returned from a directory without index.html.
PreflightGateWitness ==
    /\ index_seen = "missing"
    /\ spc = "returned"
    /\ ~bind_attempted

\* The header block holds the three cross-origin headers with their values.
HasCors(headers) ==
    /\ \E i \in DOMAIN headers :
           headers[i] = <<"Access-Control-Allow-Origin", "*">>
    /\ \E i \in DOMAIN headers :
           headers[i] = <<"Access-Control-Allow-Methods", "GET, POST, OPTIONS">>
    /\ \E i \in DOMAIN headers :
           headers[i] = <<"Access-Control-Allow-Headers", "Content-Type">>

\* C8 as stated (header uniformity): every response, whatever its status,
\* carries the three cross-origin headers.
HeaderUniformity ==
    response # NoResponse => HasCors(response.headers)

\* C8 as amended: every response that has a header block, that is every
\* response to a request carrying a valid HTTP/1.x version, carries the
\* three cross-origin headers inside that block, whatever its status; a
\* response to an HTTP/0.9 request has no header block at all.
HeaderUniformityOfHeaderBlocks ==
    response # NoResponse =>
        IF response.request_version # "HTTP/0.9"
        THEN HasCors(response.headers)
        ELSE response.headers = <<>>

\* A 404 has been sent with the three headers.
HeaderUniformityWitness ==
    /\ response # NoResponse
    /\ response.status = 404
    /\ response.request_version # "HTTP/0.9"
    /\ HasCors(response.headers)

\* C9 (graceful shutdown): start_server never ends with the socket open; a
\* bound server returns only by an interrupt, which closes the socket; a
\* failure to open the browser leaves the server serving.
GracefulShutdown ==
    /\ spc \in {"returned", "crashed"} => sock.state # "listening"
    /\ interrupted => (spc = "returned" /\ sock.state = "closed")
    /\ (spc = "returned" /\ bind_attempted) => interrupted
    /\ spc = "serving" => sock.state = "listening"
    /\ browser_failed => spc \in {"serving", "returned"}

\* The browser failed to open, the server served and was interrupted.
GracefulShutdownWitness ==
    /\ browser_failed
    /\ interrupted
    /\ response # NoResponse
    /\ spc = "returned"
    /\ sock.state = "closed"

=============================================================================
